---- MODULE Spec2Model ----
(***************************************************************************)
(* Role / user directory of the ekko-demo backend: the role table with its *)
(* ParentIndex, the users table, the Cognito user pool, and the Lambda     *)
(* handlers that mutate them.  Each handler is one action: the handlers    *)
(* are stateless and every invocation is modelled as one atomic step.      *)
(***************************************************************************)
EXTENDS Integers, Sequences, FiniteSets, TLC

VARIABLES
    roles,      \* roles table: role id -> [roleType, name, parentId]
    users,      \* users table: email -> [name, roles, isRootAdmin]
    cognito,    \* emails that have an account in the Cognito user pool
    nextId,     \* index of the next id uuid() hands out
    last,       \* the last request, its response and the tables it ran against
    trav,       \* one run of the descendants traversal, step by step
    scan        \* one read request (listUsers, summary) and the pages it saw

vars == <<roles, users, cognito, nextId, last, trav, scan>>

-----------------------------------------------------------------------------
(* Bounds *)

\* number of role ids uuid() can hand out
MaxRoles == 2

\* how many times the traversal may query the children of one role id
\* before the model stops counting
MaxLookups == 3

\* number of ordinary users in the table that listUsers and summary read
MaxListUsers == 3

\* largest limit a listUsers request asks for
MaxLimit == 2

-----------------------------------------------------------------------------
(* Program constants *)

ROOT_ROLE_ID == "SYSTEM_ROOT"

TOP_LEVEL_PARENT_ID == "ROOT"

ROOT_ADMIN_EMAIL == "root@system.app"

rootRole ==
    [roleType |-> "System", name |-> "System Root Access",
     parentId |-> TOP_LEVEL_PARENT_ID]

rootUser ==
    [name |-> "Root Admin", roles |-> {ROOT_ROLE_ID}, isRootAdmin |-> TRUE]

-----------------------------------------------------------------------------
(* Values of request fields *)

\* a JSON field that is missing or null
Absent == "<absent>"

\* a JSON value that is not a string (a number, an object)
NonString == "<non-string>"

IsString(v) == v \notin {Absent, NonString}

\* JavaScript truthiness of a field: absent, null and '' are falsy
Truthy(v) == v \notin {Absent, ""}

\* String.prototype.trim on the strings the requests carry
Trim(s) == IF s = " " THEN "" ELSE s

RoleIdSeq == <<"r1", "r2", "r3", "r4", "r5", "r6">>

NewIds == {RoleIdSeq[i] : i \in 1..MaxRoles}

RoleIds == {ROOT_ROLE_ID} \cup NewIds

\* ids uuid() has handed out so far
Issued == {RoleIdSeq[i] : i \in 1..(nextId - 1)}

\* the e-mail addresses of the directory: the root admin and one ordinary user
Emails == {ROOT_ADMIN_EMAIL, "u1@x"}

\* request bodies: a well-formed one, one without roleType, one whose name
\* is blank
Bodies ==
    {[roleType |-> "t1", name |-> "n1"],
     [roleType |-> Absent, name |-> "n1"],
     [roleType |-> "t1", name |-> " "]}

\* which store call of the invocation throws, if any
Faults == {"none", "read", "write"}

-----------------------------------------------------------------------------
(* Caller details *)

\* src/lib/authUtils.ts: what getCallerDetails returns
Unauthenticated ==
    [isAuthenticated |-> FALSE, email |-> Absent, roles |-> {},
     isRootAdmin |-> FALSE]

getCallerDetails(hasClaims, email, isRootAdmin, callerRoles) ==
    IF ~hasClaims THEN Unauthenticated
    ELSE [isAuthenticated |-> TRUE, email |-> email, roles |-> callerRoles,
          isRootAdmin |-> isRootAdmin]

\* the callers of the mutation handlers, which read the roles and the root
\* flag of the caller and never its e-mail
Callers ==
    {getCallerDetails(FALSE, Absent, FALSE, {})}
      \cup {getCallerDetails(TRUE, ROOT_ADMIN_EMAIL, TRUE, {ROOT_ROLE_ID})}
      \cup {getCallerDetails(TRUE, "u1@x", FALSE, rs) : rs \in SUBSET RoleIds}

-----------------------------------------------------------------------------
(* Store helpers: src/lib/dynamo.ts *)

getRoleById(tbl, roleId) == IF roleId \in DOMAIN tbl THEN {roleId} ELSE {}

queryRolesByParent(tbl, parentId) ==
    LET effectiveParentId ==
            IF parentId = Absent THEN TOP_LEVEL_PARENT_ID ELSE parentId
    IN  {id \in DOMAIN tbl : tbl[id].parentId = effectiveParentId}

PutItem(tbl, key, item) ==
    [k \in DOMAIN tbl \cup {key} |-> IF k = key THEN item ELSE tbl[k]]

DeleteItem(tbl, key) == [k \in DOMAIN tbl \ {key} |-> tbl[k]]

-----------------------------------------------------------------------------
(* Downstream traversal shared by the mutation handlers *)

RECURSIVE buildManageableRoles(_, _, _)
RECURSIVE buildChildren(_, _, _)

\* for (const child of children) { manageable.add(child.id); await build(child.id) }
buildChildren(tbl, children, st) ==
    IF children = {} THEN st
    ELSE LET child == CHOOSE c \in children : TRUE
             added == [st EXCEPT !.manageable = @ \cup {child}]
         IN  buildChildren(tbl, children \ {child},
                           buildManageableRoles(tbl, child, added))

buildManageableRoles(tbl, roleId, st) ==
    IF ~Truthy(roleId) \/ roleId \in st.visited THEN st
    ELSE buildChildren(tbl, queryRolesByParent(tbl, roleId),
                       [st EXCEPT !.visited = @ \cup {roleId}])

RECURSIVE buildFromEach(_, _, _)
\* for (const rid of callerRoles) await buildManageableRoles(rid)
buildFromEach(tbl, callerRoles, st) ==
    IF callerRoles = {} THEN st
    ELSE LET rid == CHOOSE r \in callerRoles : TRUE
         IN  buildFromEach(tbl, callerRoles \ {rid},
                           buildManageableRoles(tbl, rid, st))

\* the traversal with the line "manageableRoles.add(rid)" of the seed loop
\* un-commented: the caller's own roles count as manageable
ManageableRolesWithOwn(tbl, callerRoles) ==
    callerRoles \cup buildFromEach(tbl, callerRoles,
                  [visited |-> {}, manageable |-> {}]).manageable

\* the set the handlers call manageableRoles / assignableRoles
ManageableRoles(tbl, callerRoles) ==
    buildFromEach(tbl, callerRoles,
                  [visited |-> {}, manageable |-> {}]).manageable


-----------------------------------------------------------------------------
(* The record of a request and its response *)

\* respond(statusCode, payload), together with the request that caused it
\* and the tables as they were when the handler started
\* the roles whose children query throws during an invocation: with fault
\* "lookup" the query of one role, otherwise none
LookupFaults(fault) ==
    IF fault = "lookup" THEN {{r} : r \in RoleIds} ELSE {{}}

\* a failing children query taken for a role without children
LookupThrowsNever(tbl, callerRoles, failing) == FALSE

\* queryRolesByParent rethrows and no traversal catches: the traversal
\* throws when it queries a role whose query fails, and it queries every
\* seed and every role it collects
LookupThrows(tbl, callerRoles, failing) ==
    /\ failing # {}
    /\ failing \cap (callerRoles \cup ManageableRoles(tbl, callerRoles)) # {}

\* no store has been asked to delete anything
NoSteps == [directory |-> "none", identity |-> "none"]

respond(op, caller, id, parentId, email, reqRoles, status, childRoleIds) ==
    [op |-> op, caller |-> caller, id |-> id, parentId |-> parentId,
     email |-> email, reqRoles |-> reqRoles, status |-> status,
     childRoleIds |-> childRoleIds, steps |-> NoSteps, failing |-> {},
     preRoles |-> roles, preUsers |-> users, preCognito |-> cognito]

TravIdle ==
    [mode |-> "idle", pc |-> "idle", seeds |-> {}, pending |-> {},
     frames |-> <<>>, stack |-> <<>>, visited |-> {}, result |-> {},
     lookups |-> [r \in RoleIds |-> 0]]

\* no read request has been made
ScanIdle == [op |-> "none", pc |-> "idle"]

-----------------------------------------------------------------------------
(* Role directory *)

\* the guard on the root role, with the check left out
IsRootRoleUnchecked(roleId) == FALSE

\* if (roleIdToUpdate === ROOT_ROLE_ID), if (roleIdToDelete === ROOT_ROLE_ID)
IsRootRole(roleId) == roleId = ROOT_ROLE_ID

\* the final decision of updateRole with && in place of ||
UpdateDeniedBothOnly(canManageCurrentParent, canManageNewParent) ==
    ~canManageCurrentParent /\ ~canManageNewParent

\* if (!canManageCurrentParent || !canManageNewParent) return 403
UpdateDenied(canManageCurrentParent, canManageNewParent) ==
    ~canManageCurrentParent \/ ~canManageNewParent

\* the children check of deleteRole, with the check left out
HasChildrenUnchecked(children) == FALSE

\* if (children.length > 0) return 409
HasChildren(children) == children # {}

ValidText(v) == Truthy(v) /\ IsString(v) /\ Trim(v) # ""

\* POST /roles, handler with the caller check
createRole(caller, roleType, name, inputParentId, fault) ==
    LET effectiveParentId ==
            IF ~Truthy(inputParentId) THEN TOP_LEVEL_PARENT_ID
            ELSE inputParentId
        id == RoleIdSeq[nextId]
        item == [roleType |-> Trim(roleType), name |-> Trim(name),
                 parentId |-> effectiveParentId]
        status ==
            IF ~caller.isAuthenticated THEN 401
            ELSE IF ~ValidText(roleType) THEN 400
            ELSE IF ~ValidText(name) THEN 400
            ELSE IF inputParentId = NonString THEN 400
            ELSE IF ~caller.isRootAdmin
                    /\ effectiveParentId = TOP_LEVEL_PARENT_ID THEN 403
            ELSE IF ~caller.isRootAdmin
                    /\ effectiveParentId \notin caller.roles THEN 403
            ELSE IF fault = "write" THEN 500
            ELSE 201
    IN  /\ last.op = "none"
        /\ nextId <= MaxRoles
        /\ last' = respond("createRole", caller,
                           IF status = 201 THEN id ELSE Absent,
                           effectiveParentId, Absent, {}, status, {})
        /\ IF status = 201
           THEN /\ roles' = PutItem(roles, id, item)
                /\ nextId' = nextId + 1
           ELSE UNCHANGED <<roles, nextId>>
        /\ UNCHANGED <<users, cognito, trav, scan>>

\* POST /roles, handler of backend/src/handlers/roles/createRole.ts: it reads
\* no caller details.  The roles table declares parentId as a string key of
\* ParentIndex, so an item whose parentId is null or not a string is refused
\* by the store and the un-caught rejection ends the invocation (502).
createRolePlain(caller, roleType, name, parentId, fault) ==
    LET id == RoleIdSeq[nextId]
        storedParent == IF Truthy(parentId) THEN parentId ELSE Absent
        item == [roleType |-> roleType, name |-> name,
                 parentId |-> storedParent]
        status ==
            IF ~Truthy(roleType) \/ ~Truthy(name) THEN 400
            ELSE IF ~IsString(storedParent) \/ fault = "write" THEN 502
            ELSE 201
    IN  /\ last.op = "none"
        /\ nextId <= MaxRoles
        /\ last' = respond("createRolePlain", caller,
                           IF status = 201 THEN id ELSE Absent,
                           storedParent, Absent, {}, status, {})
        /\ IF status = 201
           THEN /\ roles' = PutItem(roles, id, item)
                /\ nextId' = nextId + 1
           ELSE UNCHANGED <<roles, nextId>>
        /\ UNCHANGED <<users, cognito, trav, scan>>

\* the self-parent check left out
SelfParentAllowed(roleIdToUpdate, newParentId) == FALSE

\* hierarchy sanity check 1 of updateRole: a role cannot be its own parent
SelfParent(roleIdToUpdate, newParentId) == roleIdToUpdate = newParentId

\* PUT /roles/{id}
updateRole(caller, roleIdToUpdate, newName, newRoleType, newParentIdInput, fault) ==
    \E failing \in LookupFaults(fault) :
    LET newParentId ==
            IF newParentIdInput \in {Absent, ""} THEN TOP_LEVEL_PARENT_ID
            ELSE newParentIdInput
        existingRole == getRoleById(roles, roleIdToUpdate)
        currentParentId ==
            IF existingRole = {} THEN Absent
            ELSE IF Truthy(roles[roleIdToUpdate].parentId)
                 THEN roles[roleIdToUpdate].parentId
                 ELSE TOP_LEVEL_PARENT_ID
        assignableRoles == ManageableRoles(roles, caller.roles)
        canManageCurrentParent ==
            IF currentParentId = TOP_LEVEL_PARENT_ID THEN FALSE
            ELSE currentParentId \in caller.roles
                 \/ currentParentId \in assignableRoles
        canManageNewParent ==
            IF newParentId = TOP_LEVEL_PARENT_ID THEN FALSE
            ELSE newParentId \in caller.roles
                 \/ newParentId \in assignableRoles
        status ==
            IF roleIdToUpdate = Absent THEN 400
            ELSE IF IsRootRole(roleIdToUpdate) THEN 403
            ELSE IF ~caller.isAuthenticated THEN 401
            ELSE IF ~ValidText(newName) THEN 400
            ELSE IF ~ValidText(newRoleType) THEN 400
            ELSE IF newParentIdInput = NonString THEN 400
            ELSE IF SelfParent(roleIdToUpdate, newParentId) THEN 400
            ELSE IF fault = "read" THEN 500
            ELSE IF existingRole = {} THEN 404
            ELSE IF newParentId # TOP_LEVEL_PARENT_ID
                    /\ getRoleById(roles, newParentId) = {} THEN 400
            ELSE IF ~caller.isRootAdmin
                    /\ LookupThrows(roles, caller.roles, failing) THEN 500
            ELSE IF ~caller.isRootAdmin
                    /\ UpdateDenied(canManageCurrentParent,
                                    canManageNewParent) THEN 403
            ELSE IF fault = "write" THEN 500
            ELSE 200
    IN  /\ last.op = "none"
        /\ last' = [respond("updateRole", caller, roleIdToUpdate,
                            newParentId, Absent, {}, status, {})
                      EXCEPT !.failing = failing]
        /\ IF status = 200
           THEN roles' = PutItem(roles, roleIdToUpdate,
                                 [roleType |-> newRoleType, name |-> newName,
                                  parentId |-> newParentId])
           ELSE UNCHANGED roles
        /\ UNCHANGED <<users, cognito, nextId, trav, scan>>

\* DELETE /roles/{id}
deleteRole(caller, roleIdToDelete, fault) ==
    \E failing \in LookupFaults(fault) :
    LET targetRole == getRoleById(roles, roleIdToDelete)
        manageableRoles == ManageableRoles(roles, caller.roles)
        canDelete == caller.isRootAdmin \/ roleIdToDelete \in manageableRoles
        children == queryRolesByParent(roles, roleIdToDelete)
        status ==
            IF roleIdToDelete = Absent THEN 400
            ELSE IF IsRootRole(roleIdToDelete) THEN 403
            ELSE IF ~caller.isAuthenticated THEN 401
            ELSE IF fault = "read" THEN 500
            ELSE IF targetRole = {} THEN 404
            ELSE IF ~caller.isRootAdmin
                    /\ LookupThrows(roles, caller.roles, failing) THEN 500
            ELSE IF ~canDelete THEN 403
            ELSE IF roleIdToDelete \in failing THEN 500
            ELSE IF HasChildren(children) THEN 409
            ELSE IF fault = "write" THEN 500
            ELSE 200
    IN  /\ last.op = "none"
        /\ last' = [respond("deleteRole", caller, roleIdToDelete, Absent,
                            Absent, {}, status,
                            IF status = 409 THEN children ELSE {})
                      EXCEPT !.failing = failing]
        /\ IF status = 200
           THEN roles' = DeleteItem(roles, roleIdToDelete)
           ELSE UNCHANGED roles
        /\ UNCHANGED <<users, cognito, nextId, trav, scan>>

-----------------------------------------------------------------------------
(* Initial state: the tables as scripts/seed.ts leaves them *)

SeededRoles == [id \in {ROOT_ROLE_ID} |-> rootRole]

SeededUsers == [e \in {ROOT_ADMIN_EMAIL} |-> rootUser]

NoRequest ==
    [op |-> "none", caller |-> Unauthenticated, id |-> Absent,
     parentId |-> Absent, email |-> Absent, reqRoles |-> {}, status |-> 0,
     childRoleIds |-> {}, steps |-> NoSteps, failing |-> {},
     preRoles |-> SeededRoles, preUsers |-> SeededUsers, preCognito |-> {}]

Init ==
    /\ roles = SeededRoles
    /\ users = SeededUsers
    /\ cognito = {}
    /\ nextId = 1
    /\ last = NoRequest
    /\ trav = TravIdle
    /\ scan = ScanIdle

\* parent ids a well-formed request can name: nothing, the empty string, the
\* root role and every id handed out so far (a uuid not yet generated cannot
\* be named)
ParentInputs == {Absent, "", ROOT_ROLE_ID} \cup Issued

ValidBody == [roleType |-> "t1", name |-> "n1"]

RootAdminCaller == getCallerDetails(TRUE, ROOT_ADMIN_EMAIL, TRUE, {ROOT_ROLE_ID})

\* malformed requests: no roleType, a blank name, a parentId that is no string
MalformedRoleRequests ==
    [caller : {RootAdminCaller}, body : Bodies \ {ValidBody},
     parentId : {Absent}, fault : {"none"}]
      \cup [caller : {RootAdminCaller}, body : {ValidBody},
            parentId : {NonString, TOP_LEVEL_PARENT_ID}, fault : {"none"}]

CreateRoleRequests ==
    [caller : Callers, body : {ValidBody}, parentId : ParentInputs,
     fault : {"none", "write"}] \cup MalformedRoleRequests

\* the callers whose requests meet a failing children query: non-root
\* callers holding the root role or the first role created
LookupCallers ==
    {getCallerDetails(TRUE, "u1@x", FALSE, {ROOT_ROLE_ID}),
     getCallerDetails(TRUE, "u1@x", FALSE, {RoleIdSeq[1]})}

UpdateRoleRequests ==
    [caller : Callers, body : {ValidBody}, parentId : ParentInputs,
     fault : Faults] \cup MalformedRoleRequests
      \cup [caller : LookupCallers, body : {ValidBody},
            parentId : {ROOT_ROLE_ID}, fault : {"lookup"}]

TargetIds == {ROOT_ROLE_ID} \cup NewIds

\* the response has gone back to the client and the invocation is over
deliver ==
    /\ last.op # "none"
    /\ last' = [last EXCEPT !.op = "none", !.caller = Unauthenticated,
                            !.id = Absent, !.parentId = Absent,
                            !.email = Absent, !.reqRoles = {}, !.status = 0,
                            !.childRoleIds = {}, !.steps = NoSteps,
                            !.failing = {},
                            !.preRoles = SeededRoles,
                            !.preUsers = SeededUsers, !.preCognito = {}]
    /\ UNCHANGED <<roles, users, cognito, nextId, trav, scan>>

RoleNext ==
    \/ \E r \in CreateRoleRequests :
          createRole(r.caller, r.body.roleType, r.body.name, r.parentId,
                     r.fault)
    \/ \E r \in CreateRoleRequests :
          createRolePlain(r.caller, r.body.roleType, r.body.name, r.parentId,
                          r.fault)
    \/ \E r \in UpdateRoleRequests, id \in TargetIds :
          updateRole(r.caller, id, r.body.name, r.body.roleType, r.parentId,
                     r.fault)
    \/ \E c \in Callers, id \in TargetIds \cup {Absent}, f \in Faults :
          deleteRole(c, id, f)
    \/ \E c \in LookupCallers, id \in NewIds : deleteRole(c, id, "lookup")
    \/ deliver

SpecRoles == Init /\ [][RoleNext]_vars

-----------------------------------------------------------------------------
(* User directory *)

getUserByEmail(tbl, email) == IF email \in DOMAIN tbl THEN {email} ELSE {}

\* const currentRoles = existingUser.roles || []
rolesOf(tbl, email) == tbl[email].roles

\* the "every requested role is assignable" loop with the test negated once
\* too often: one assignable role is enough
AnyIn(roleSet, manageableRoles) == roleSet \cap manageableRoles # {}

\* targetRoles.every(r => manageableRoles.has(r))
EveryIn(roleSet, manageableRoles) == roleSet \subseteq manageableRoles

\* the empty-roles test of deleteUser and updateUser, left out
NoRolesUnchecked(roleSet) == FALSE

\* if (targetUserRoles.length === 0), if (currentRoles.length === 0)
NoRoles(roleSet) == roleSet = {}

\* the final decision of updateUser with && in place of ||
PermissionDeniedBothOnly(canManageCurrentUser, canAssignNewRoles) ==
    ~canManageCurrentUser /\ ~canAssignNewRoles

\* if (!canManageCurrentUser || !canAssignNewRoles) return 403
PermissionDenied(canManageCurrentUser, canAssignNewRoles) ==
    ~canManageCurrentUser \/ ~canAssignNewRoles

\* POST /users
createUser(caller, targetEmail, name, targetRoles, fault) ==
    \E failing \in LookupFaults(fault) :
    LET assignableRoles == ManageableRoles(roles, caller.roles)
        status ==
            IF ~caller.isAuthenticated THEN 401
            ELSE IF ~Truthy(targetEmail) \/ ~Truthy(name)
                    \/ NonString \in targetRoles THEN 400
            ELSE IF targetRoles = {} THEN 400
            ELSE IF ~caller.isRootAdmin /\ fault = "read" THEN 500
            ELSE IF ~caller.isRootAdmin
                    /\ LookupThrows(roles, caller.roles, failing) THEN 500
            ELSE IF ~caller.isRootAdmin
                    /\ ~EveryIn(targetRoles, assignableRoles) THEN 403
            ELSE IF fault = "write" THEN 500
            ELSE 201
    IN  /\ last.op = "none"
        /\ last' = [respond("createUser", caller, Absent, Absent,
                            targetEmail, targetRoles, status, {})
                      EXCEPT !.failing = failing]
        /\ IF status = 201
           THEN users' = PutItem(users, targetEmail,
                                 [name |-> name, roles |-> targetRoles,
                                  isRootAdmin |-> FALSE])
           ELSE UNCHANGED users
        /\ UNCHANGED <<roles, cognito, nextId, trav, scan>>

\* PUT /users/{email}
updateUser(caller, targetEmail, newName, newRoles, fault) ==
    \E failing \in LookupFaults(fault) :
    LET existingUser == getUserByEmail(users, targetEmail)
        currentRoles == IF existingUser = {} THEN {}
                        ELSE rolesOf(users, targetEmail)
        assignableRoles == ManageableRoles(roles, caller.roles)
        canManageCurrentUser ==
            IF NoRoles(currentRoles) THEN FALSE
            ELSE EveryIn(currentRoles, assignableRoles)
        canAssignNewRoles == EveryIn(newRoles, assignableRoles)
        status ==
            IF targetEmail = Absent THEN 400
            ELSE IF ~caller.isAuthenticated THEN 401
            ELSE IF ~ValidText(newName) THEN 400
            ELSE IF NonString \in newRoles THEN 400
            ELSE IF newRoles = {} THEN 400
            ELSE IF fault = "read" THEN 500
            ELSE IF existingUser = {} THEN 404
            ELSE IF targetEmail = ROOT_ADMIN_EMAIL
                    /\ currentRoles # newRoles THEN 403
            ELSE IF ~caller.isRootAdmin
                    /\ LookupThrows(roles, caller.roles, failing) THEN 500
            ELSE IF ~caller.isRootAdmin
                    /\ PermissionDenied(canManageCurrentUser,
                                        canAssignNewRoles) THEN 403
            ELSE IF fault = "write" THEN 500
            ELSE 200
    IN  /\ last.op = "none"
        /\ last' = [respond("updateUser", caller, Absent, Absent,
                            targetEmail, newRoles, status, {})
                      EXCEPT !.failing = failing]
        /\ IF status = 200
           THEN users' = [users EXCEPT ![targetEmail].name = newName,
                                       ![targetEmail].roles = newRoles]
           ELSE UNCHANGED users
        /\ UNCHANGED <<roles, cognito, nextId, trav, scan>>

\* the permission check of deleteUser run without a record as well
PermissionCheckedAlways(targetUser) == TRUE

\* deleteUser checks permissions only in the else branch of if (!targetUser)
PermissionChecked(targetUser) == targetUser # {}

\* step 2 of deleteUser run whatever step 1 did
CognitoAttemptedAlways(directoryStep) == TRUE

\* step 2 of deleteUser is reached: step 1 did not return from its catch
\* block, and if (dynamoDeleted)
CognitoAttempted(directoryStep) == directoryStep \in {"absent", "deleted"}

\* UserNotFoundException no longer counted as deleted
TreatedAsDeletedOnlyIfFound(identityStep) == identityStep = "deleted"

\* cognitoDeleted = true: the delete went through, or UserNotFoundException
TreatedAsDeleted(identityStep) == identityStep \in {"deleted", "notfound"}

\* the final response with the partial outcome reported as a failure
FinalStatusHardFailure(dynamoDeleted, cognitoDeleted) ==
    IF dynamoDeleted /\ cognitoDeleted THEN 200 ELSE 500

\* the final response of deleteUser
FinalStatus(dynamoDeleted, cognitoDeleted) ==
    IF dynamoDeleted /\ cognitoDeleted THEN 200
    ELSE IF dynamoDeleted /\ ~cognitoDeleted THEN 207
    ELSE 500

\* DELETE /users/{email}; fault "claim" is a custom:roles claim that is not
\* JSON, fault "write" a failing DeleteCommand, fault "cognito" an
\* AdminDeleteUser error other than UserNotFoundException
deleteUser(caller, targetEmail, fault) ==
    \E failing \in LookupFaults(fault) :
    LET targetUser == getUserByEmail(users, targetEmail)
        targetUserRoles == IF targetUser = {} THEN {}
                           ELSE rolesOf(users, targetEmail)
        manageableRoles == ManageableRoles(roles, caller.roles)
        refused ==
            IF targetEmail = Absent THEN 400
            ELSE IF targetEmail = ROOT_ADMIN_EMAIL THEN 403
            ELSE IF ~caller.isAuthenticated THEN 401
            ELSE IF fault = "claim" THEN 400
            ELSE IF fault = "read" THEN 500
            ELSE IF PermissionChecked(targetUser) /\ ~caller.isRootAdmin
                    /\ NoRoles(targetUserRoles) THEN 403
            ELSE IF PermissionChecked(targetUser) /\ ~caller.isRootAdmin
                    /\ LookupThrows(roles, caller.roles, failing) THEN 500
            ELSE IF PermissionChecked(targetUser) /\ ~caller.isRootAdmin
                    /\ ~EveryIn(targetUserRoles, manageableRoles) THEN 403
            ELSE 0
        directoryStep ==
            IF refused # 0 THEN "none"
            ELSE IF targetUser = {} THEN "absent"
            ELSE IF fault = "write" THEN "failed"
            ELSE "deleted"
        dynamoDeleted == directoryStep \in {"absent", "deleted"}
        identityStep ==
            IF refused # 0 \/ ~CognitoAttempted(directoryStep) THEN "none"
            ELSE IF fault = "cognito" THEN "failed"
            ELSE IF targetEmail \in cognito THEN "deleted"
            ELSE "notfound"
        cognitoDeleted == TreatedAsDeleted(identityStep)
        status == IF refused # 0 THEN refused
                  ELSE FinalStatus(dynamoDeleted, cognitoDeleted)
    IN  /\ last.op = "none"
        /\ last' = [respond("deleteUser", caller, Absent, Absent,
                            targetEmail, {}, status, {})
                      EXCEPT !.steps = [directory |-> directoryStep,
                                        identity |-> identityStep],
                             !.failing = failing]
        /\ IF directoryStep = "deleted"
           THEN users' = DeleteItem(users, targetEmail)
           ELSE UNCHANGED users
        /\ IF identityStep = "deleted"
           THEN cognito' = cognito \ {targetEmail}
           ELSE UNCHANGED cognito
        /\ UNCHANGED <<roles, nextId, trav, scan>>

\* POST /register
registerUser(keyMatches, email, password) ==
    LET approvedUser == getUserByEmail(users, email)
        status ==
            IF ~keyMatches THEN 401
            ELSE IF ~Truthy(email) \/ ~Truthy(password) THEN 400
            ELSE IF approvedUser = {} THEN 403
            ELSE IF email \in cognito THEN 200
            ELSE 201
    IN  /\ last.op = "none"
        /\ last' = respond("registerUser", Unauthenticated, Absent, Absent,
                           email, {}, status, {})
        /\ IF status = 201
           THEN cognito' = cognito \cup {email}
           ELSE UNCHANGED cognito
        /\ UNCHANGED <<roles, users, nextId, trav, scan>>

\* the role trees createRole builds below the root role: every new role is
\* put under the root role or under a role created before it
RECURSIVE RoleTrees(_)
RoleTrees(n) ==
    IF n = 0 THEN {SeededRoles}
    ELSE {PutItem(t, RoleIdSeq[n],
                  [roleType |-> "t1", name |-> "n1", parentId |-> p]) :
            t \in RoleTrees(n - 1),
            p \in {ROOT_ROLE_ID} \cup {RoleIdSeq[i] : i \in 1..(n - 1)}}

\* a record of the users table that carries no roles (putUser stores any
\* record; the handlers read it as roles = [])
RolelessUser == [name |-> "n1", roles |-> {}, isRootAdmin |-> FALSE]

InitUsers ==
    /\ roles \in RoleTrees(MaxRoles)
    /\ users \in {SeededUsers, PutItem(SeededUsers, "u1@x", RolelessUser)}
    /\ cognito = {}
    /\ nextId = MaxRoles + 1
    /\ last = NoRequest
    /\ trav = TravIdle
    /\ scan = ScanIdle

\* role lists of at most two roles
RoleLists == {rs \in SUBSET RoleIds : Cardinality(rs) \in 1..2}

UserCallers ==
    {Unauthenticated, RootAdminCaller}
      \cup {getCallerDetails(TRUE, "u1@x", FALSE, rs) :
              rs \in RoleLists \cup {{}}}

UserRequests ==
    [caller : UserCallers, email : {"u1@x"}, name : {"n2"},
     roles : RoleLists, fault : {"none"}]
      \cup [caller : UserCallers, email : {ROOT_ADMIN_EMAIL}, name : {"n2"},
            roles : {{ROOT_ROLE_ID}, {"r1"}}, fault : {"none"}]
      \cup [caller : {RootAdminCaller}, email : {"u1@x"}, name : {"n2"},
            roles : {{"r1"}}, fault : {"read", "write"}]
      \cup [caller : UserCallers, email : {"u1@x"}, name : {"n2"},
            roles : {{"r1"}, {"r2"}}, fault : {"lookup"}]
      \cup [caller : {RootAdminCaller}, email : {"u1@x", Absent},
            name : {"n2", Absent, " "}, roles : {{"r1"}, {}, {NonString}},
            fault : {"none"}]

DeleteUserRequests ==
    [caller : UserCallers, email : Emails, fault : {"none", "cognito"}]
      \cup [caller : {RootAdminCaller,
                      getCallerDetails(TRUE, "u1@x", FALSE, {ROOT_ROLE_ID})},
            email : {"u1@x", Absent}, fault : {"claim", "read", "write"}]
      \cup [caller : UserCallers, email : {"u1@x"}, fault : {"lookup"}]

UserNext ==
    \/ \E r \in UserRequests :
          createUser(r.caller, r.email, r.name, r.roles, r.fault)
    \/ \E r \in UserRequests :
          updateUser(r.caller, r.email, r.name, r.roles, r.fault)
    \/ \E r \in DeleteUserRequests : deleteUser(r.caller, r.email, r.fault)
    \/ \E k \in BOOLEAN, e \in {"u1@x", Absent}, pw \in {"pw", Absent} :
          registerUser(k, e, pw)
    \/ deliver

SpecUsers == InitUsers /\ [][UserNext]_vars

-----------------------------------------------------------------------------
(* The descendants traversal, one store lookup at a time *)

\* the visited test, left out
AlreadyVisitedNever(roleId, visited) == FALSE

\* visited.has(roleId)
AlreadyVisited(roleId, visited) == roleId \in visited

\* the orders in which a query can return the ids of S
Orders(S) ==
    {o \in [1..Cardinality(S) -> S] : \A i, j \in 1..Cardinality(S) :
                                          o[i] = o[j] => i = j}

Front(q) == SubSeq(q, 1, Len(q) - 1)

\* one call of buildManageableRoles(roleId): return at once, or mark the role
\* visited, look its children up and start the loop over them
Enter(t, roleId) ==
    IF ~Truthy(roleId) \/ AlreadyVisited(roleId, t.visited) THEN t
    ELSE [t EXCEPT !.visited = @ \cup {roleId},
                   !.lookups[roleId] = @ + 1,
                   !.frames = Append(@, queryRolesByParent(roles, roleId))]

\* a step that looks the children of roleId up is taken only below the cap
WithinCap(t, roleId) ==
    AlreadyVisited(roleId, t.visited) \/ t.lookups[roleId] < MaxLookups

\* for (const rid of callerRoles) await buildManageableRoles(rid)
buildManageableRolesSeed ==
    /\ trav.mode = "recursive" /\ trav.pc = "run"
    /\ trav.frames = <<>>
    /\ \E rid \in trav.pending :
          /\ WithinCap(trav, rid)
          /\ trav' = Enter([trav EXCEPT !.pending = @ \ {rid}], rid)
    /\ UNCHANGED <<roles, users, cognito, nextId, last, scan>>

\* for (const child of children) { manageableRoles.add(child.id);
\*                                 await buildManageableRoles(child.id) }
buildManageableRolesChild ==
    /\ trav.mode = "recursive" /\ trav.pc = "run"
    /\ trav.frames # <<>>
    /\ \E child \in trav.frames[Len(trav.frames)] :
          /\ WithinCap(trav, child)
          /\ trav' = Enter([trav EXCEPT !.result = @ \cup {child},
                                        !.frames[Len(trav.frames)] =
                                            @ \ {child}],
                           child)
    /\ UNCHANGED <<roles, users, cognito, nextId, last, scan>>

\* the loop over the children is over: the call returns
buildManageableRolesReturn ==
    /\ trav.mode = "recursive" /\ trav.pc = "run"
    /\ trav.frames # <<>>
    /\ trav.frames[Len(trav.frames)] = {}
    /\ trav' = [trav EXCEPT !.frames = Front(@)]
    /\ UNCHANGED <<roles, users, cognito, nextId, last, scan>>

\* the loop over the caller's roles is over
buildManageableRolesDone ==
    /\ trav.mode = "recursive" /\ trav.pc = "run"
    /\ trav.frames = <<>> /\ trav.pending = {}
    /\ trav' = [trav EXCEPT !.pc = "done"]
    /\ UNCHANGED <<roles, users, cognito, nextId, last, scan>>

\* one turn of the while (stack.length) loop of getDescendants
getDescendantsPop ==
    /\ trav.mode = "iterative" /\ trav.pc = "run"
    /\ trav.stack # <<>>
    /\ LET parentId == trav.stack[Len(trav.stack)]
           rest == Front(trav.stack)
       IN  IF AlreadyVisited(parentId, trav.visited)
           THEN trav' = [trav EXCEPT !.stack = rest]
           ELSE /\ trav.lookups[parentId] < MaxLookups
                /\ \E items \in Orders(queryRolesByParent(roles, parentId)) :
                      trav' = [trav EXCEPT !.visited = @ \cup {parentId},
                                           !.lookups[parentId] = @ + 1,
                                           !.stack = rest \o items]
    /\ UNCHANGED <<roles, users, cognito, nextId, last, scan>>

\* userRoles.forEach(r => visited.delete(r)); return Array.from(visited)
getDescendantsDone ==
    /\ trav.mode = "iterative" /\ trav.pc = "run"
    /\ trav.stack = <<>>
    /\ trav' = [trav EXCEPT !.result = trav.visited \ trav.seeds,
                            !.pc = "done"]
    /\ UNCHANGED <<roles, users, cognito, nextId, last, scan>>

\* every roles table over the ids: each new role is missing, top-level, or
\* has any id (its own included) as parentId
RoleGraphs ==
    {[id \in {ROOT_ROLE_ID} \cup {n \in NewIds : pm[n] # Absent} |->
        IF id = ROOT_ROLE_ID THEN rootRole
        ELSE [roleType |-> "t1", name |-> "n1", parentId |-> pm[id]]] :
       pm \in [NewIds -> {Absent, TOP_LEVEL_PARENT_ID} \cup RoleIds]}

InitTraverse ==
    /\ roles \in RoleGraphs
    /\ users = SeededUsers
    /\ cognito = {}
    /\ nextId = MaxRoles + 1
    /\ last = NoRequest
    /\ scan = ScanIdle
    /\ \E seeds \in SUBSET RoleIds :
          \/ trav = [TravIdle EXCEPT !.mode = "recursive", !.pc = "run",
                                     !.seeds = seeds, !.pending = seeds]
          \/ \E order \in Orders(seeds) :
                trav = [TravIdle EXCEPT !.mode = "iterative", !.pc = "run",
                                        !.seeds = seeds, !.stack = order]

TraverseNext ==
    \/ buildManageableRolesSeed
    \/ buildManageableRolesChild
    \/ buildManageableRolesReturn
    \/ buildManageableRolesDone
    \/ getDescendantsPop
    \/ getDescendantsDone

SpecTraverse == InitTraverse /\ [][TraverseNext]_vars

\* the traversal is one sequential async function: it takes its next step
\* whenever the store has answered
SpecTraverseFair == SpecTraverse /\ WF_vars(TraverseNext)

-----------------------------------------------------------------------------
(* Reading the users table: GET /users *)

UserSeq == <<"u1@x", "u2@x", "u3@x", "u4@x", "u5@x">>

ListEmails == {ROOT_ADMIN_EMAIL} \cup {UserSeq[i] : i \in 1..MaxListUsers}

\* the users table the read requests run against: the root admin and
\* ordinary users created with one role each, the second one with two
ListedUsers ==
    [e \in ListEmails |->
        IF e = ROOT_ADMIN_EMAIL THEN rootUser
        ELSE LET i == CHOOSE k \in 1..MaxListUsers : UserSeq[k] = e
             IN  [name |-> "n1",
                  roles |-> {RoleIdSeq[((i - 1) % MaxRoles) + 1]}
                            \cup (IF i = 2 THEN {"r1"} ELSE {}),
                  isRootAdmin |-> FALSE]]

\* LastEvaluatedKey of a page that reached the end of the table
NoKey == 0 - 1

Min(a, b) == IF a < b THEN a ELSE b

\* ScanCommand with Limit and ExclusiveStartKey over a table whose scan order
\* is order: the items evaluated and the LastEvaluatedKey.  A page that hits
\* its Limit on the last item of the table may or may not carry a key.
ScanPages(order, start, limit) ==
    LET stop == Min(start + limit, Len(order))
        evaluated == SubSeq(order, start + 1, stop)
        keys == IF stop < Len(order) THEN {stop}
                ELSE IF stop = start + limit THEN {stop, NoKey}
                ELSE {NoKey}
    IN  {[Evaluated |-> evaluated, LastEvaluatedKey |-> k] : k \in keys}

\* buildAccessible: the caller's own roles and everything below them
AccessibleRoles(tbl, callerRoles) ==
    callerRoles \cup ManageableRoles(tbl, callerRoles)

\* the filter joined with AND in place of OR
MatchesFilterAll(tbl, email, accessibleRoleIds) ==
    accessibleRoleIds \subseteq tbl[email].roles

\* FilterExpression contains(roles, :r0) OR contains(roles, :r1) OR ...
MatchesFilter(tbl, email, accessibleRoleIds) ==
    tbl[email].roles \cap accessibleRoleIds # {}

\* the items of a page that pass the scan's filter (none for root admin)
FilteredItems(evaluated, caller) ==
    LET accessibleRoleIds == AccessibleRoles(roles, caller.roles)
        Keep(e) == caller.isRootAdmin
                   \/ MatchesFilter(users, e, accessibleRoleIds)
    IN  SelectSeq(evaluated, Keep)

\* one GET /users of the paging client, handled by the version of the
\* handler that strips the caller from the page
getUsers ==
    /\ scan.op = "listUsers" /\ scan.version = "filtering"
    /\ scan.pc = "run"
    /\ LET caller == scan.caller
           requestedLimit == scan.limit
           internalLimit == requestedLimit + 1
           executeScan == caller.isRootAdmin
                          \/ AccessibleRoles(roles, caller.roles) # {}
       IN  IF ~caller.isAuthenticated \/ ~Truthy(caller.email)
           THEN scan' = [scan EXCEPT !.status = 401, !.pc = "done"]
           ELSE IF ~executeScan
           THEN scan' = [scan EXCEPT !.status = 200, !.pc = "done",
                                     !.pages = Append(@, <<>>)]
           ELSE \E res \in ScanPages(scan.order, scan.cursor, internalLimit) :
                  LET NotSelf(e) == e # caller.email
                      items == SelectSeq(FilteredItems(res.Evaluated, caller),
                                         NotSelf)
                      page == IF Len(items) > requestedLimit
                              THEN SubSeq(items, 1, requestedLimit)
                              ELSE items
                  IN  scan' = [scan EXCEPT
                                 !.status = 200,
                                 !.scans = @ + 1,
                                 !.pages = Append(@, page),
                                 !.cursor = res.LastEvaluatedKey,
                                 !.pc = IF res.LastEvaluatedKey = NoKey
                                        THEN "done" ELSE "run"]
    /\ UNCHANGED <<roles, users, cognito, nextId, last, trav>>

\* one GET /users of the paging client, handled by the version of the
\* handler that returns the scanned page as it is
getUsersPlain ==
    /\ scan.op = "listUsers" /\ scan.version = "plain"
    /\ scan.pc = "run"
    /\ LET caller == scan.caller
           limit == scan.limit
           executeScan == caller.isRootAdmin
                          \/ AccessibleRoles(roles, caller.roles) # {}
       IN  IF ~caller.isAuthenticated
           THEN scan' = [scan EXCEPT !.status = 401, !.pc = "done"]
           ELSE IF ~executeScan
           THEN scan' = [scan EXCEPT !.status = 200, !.pc = "done",
                                     !.pages = Append(@, <<>>)]
           ELSE \E res \in ScanPages(scan.order, scan.cursor, limit) :
                  scan' = [scan EXCEPT
                             !.status = 200,
                             !.scans = @ + 1,
                             !.pages = Append(@, FilteredItems(res.Evaluated,
                                                               caller)),
                             !.cursor = res.LastEvaluatedKey,
                             !.pc = IF res.LastEvaluatedKey = NoKey
                                    THEN "done" ELSE "run"]
    /\ UNCHANGED <<roles, users, cognito, nextId, last, trav>>

\* the callers of the read requests
ReadCallers ==
    {Unauthenticated, RootAdminCaller}
      \cup {getCallerDetails(TRUE, "u1@x", FALSE, rs) :
              rs \in {{}, {ROOT_ROLE_ID}, {"r1"}}}

\* a client starts paging through GET /users with a fixed limit
InitList ==
    /\ roles \in RoleTrees(MaxRoles)
    /\ users = ListedUsers
    /\ cognito = {}
    /\ nextId = MaxRoles + 1
    /\ last = NoRequest
    /\ trav = TravIdle
    /\ \E caller \in ReadCallers, limit \in 1..MaxLimit,
          version \in {"filtering", "plain"}, order \in Orders(ListEmails) :
          scan = [op |-> "listUsers", version |-> version, pc |-> "run",
                  caller |-> caller, limit |-> limit, order |-> order,
                  cursor |-> 0, pages |-> <<>>, status |-> 0, scans |-> 0]

ListNext == getUsers \/ getUsersPlain

SpecList == InitList /\ [][ListNext]_vars

-----------------------------------------------------------------------------
(* GET /summary *)

\* the do-while loop of a count scan stopping after its first page
MorePagesNever(lastKey) == FALSE

\* while (lastKey)
MorePages(lastKey) == lastKey # NoKey

\* the empty test of countUsersBy, left out
NoRoleIdsUnchecked(roleIds) == FALSE

\* if (roleIds.length === 0) return 0
NoRoleIds(roleIds) == roleIds = {}

\* the order in which a count scan walks the keys of ListedUsers
ListedOrder == <<ROOT_ADMIN_EMAIL>> \o SubSeq(UserSeq, 1, MaxListUsers)

\* a ScanCommand without Limit over a table of n items, resumed after item
\* start: the store ends the page where it likes (the 1 MB cut), and a page
\* that ends on the last item may or may not carry a key
SplitPages(n, start) ==
    IF start >= n THEN {[stop |-> n, LastEvaluatedKey |-> NoKey]}
    ELSE {[stop |-> k, LastEvaluatedKey |-> k] : k \in (start + 1)..n}
           \cup {[stop |-> n, LastEvaluatedKey |-> NoKey]}

\* the handler's entry: claims are read without a check, root admin counts
\* the tables, anyone else starts getDescendants(userRoles)
summary ==
    /\ scan.op = "summary" /\ scan.pc = "start"
    /\ IF ~scan.caller.isAuthenticated
       THEN /\ scan' = [scan EXCEPT !.status = 502, !.pc = "done"]
            /\ UNCHANGED trav
       ELSE IF scan.caller.isRootAdmin
       THEN /\ scan' = [scan EXCEPT !.pc = "countRoles"]
            /\ UNCHANGED trav
       ELSE /\ scan' = [scan EXCEPT !.pc = "getDescendants"]
            /\ \E order \in Orders(scan.caller.roles) :
                  trav' = [TravIdle EXCEPT !.mode = "iterative",
                                           !.pc = "run",
                                           !.seeds = scan.caller.roles,
                                           !.stack = order]
    /\ UNCHANGED <<roles, users, cognito, nextId, last>>

\* one turn of the do-while loop of countAll, on the roles table and then on
\* the users table
countAll ==
    /\ scan.op = "summary" /\ scan.pc \in {"countRoles", "countUsers"}
    /\ LET n == IF scan.pc = "countRoles" THEN Cardinality(DOMAIN roles)
                ELSE Cardinality(DOMAIN users)
       IN  \E resp \in SplitPages(n, scan.cursor) :
              LET total == scan.total + (resp.stop - scan.cursor)
                  lastKey == resp.LastEvaluatedKey
              IN  scan' =
                    IF MorePages(lastKey)
                    THEN [scan EXCEPT !.total = total, !.cursor = lastKey,
                                      !.scans = @ + 1]
                    ELSE IF scan.pc = "countRoles"
                    THEN [scan EXCEPT !.roleCount = total, !.total = 0,
                                      !.cursor = 0, !.scans = @ + 1,
                                      !.pc = "countUsers"]
                    ELSE [scan EXCEPT !.userCount = total, !.total = 0,
                                      !.cursor = 0, !.scans = @ + 1,
                                      !.status = 200, !.pc = "done"]
    /\ UNCHANGED <<roles, users, cognito, nextId, last, trav>>

\* roleCount = descendants.length; countUsersBy([...userRoles,
\* ...descendants]) up to its first scan
countUsersByStart ==
    /\ scan.op = "summary" /\ scan.pc = "getDescendants"
    /\ trav.pc = "done"
    /\ LET roleIds == scan.caller.roles \cup trav.result
       IN  scan' =
             IF NoRoleIds(roleIds)
             THEN [scan EXCEPT !.roleCount = Cardinality(trav.result),
                               !.userCount = 0, !.status = 200,
                               !.pc = "done"]
             ELSE [scan EXCEPT !.roleCount = Cardinality(trav.result),
                               !.roleIds = roleIds,
                               !.pc = "countUsersBy"]
    /\ UNCHANGED <<roles, users, cognito, nextId, last, trav>>

\* one turn of the do-while loop of countUsersBy
countUsersBy ==
    /\ scan.op = "summary" /\ scan.pc = "countUsersBy"
    /\ LET order == ListedOrder
       IN  \E resp \in SplitPages(Len(order), scan.cursor) :
              LET Count == Cardinality(
                      {i \in (scan.cursor + 1)..resp.stop :
                         MatchesFilter(users, order[i], scan.roleIds)})
                  total == scan.total + Count
                  lastKey == resp.LastEvaluatedKey
              IN  scan' =
                    IF MorePages(lastKey)
                    THEN [scan EXCEPT !.total = total, !.cursor = lastKey,
                                      !.scans = @ + 1]
                    ELSE [scan EXCEPT !.userCount = total, !.total = 0,
                                      !.cursor = 0, !.scans = @ + 1,
                                      !.status = 200, !.pc = "done"]
    /\ UNCHANGED <<roles, users, cognito, nextId, last, trav>>

SummaryCallers ==
    {Unauthenticated, RootAdminCaller}
      \cup {getCallerDetails(TRUE, "u1@x", FALSE, rs) :
              rs \in {{}, {ROOT_ROLE_ID}, {"r1"}, {"r1", "r2"}}}

InitSummary ==
    /\ roles \in RoleGraphs
    /\ users = ListedUsers
    /\ cognito = {}
    /\ nextId = MaxRoles + 1
    /\ last = NoRequest
    /\ trav = TravIdle
    /\ \E caller \in SummaryCallers :
          scan = [op |-> "summary", pc |-> "start", caller |-> caller,
                  status |-> 0, cursor |-> 0, total |-> 0, scans |-> 0,
                  roleIds |-> {}, roleCount |-> 0 - 1, userCount |-> 0 - 1]

SummaryNext ==
    \/ summary
    \/ countAll
    \/ getDescendantsPop
    \/ getDescendantsDone
    \/ countUsersByStart
    \/ countUsersBy

SpecSummary == InitSummary /\ [][SummaryNext]_vars

-----------------------------------------------------------------------------
(* deleteRole taken one store call at a time, beside other invocations *)

\* deleteRole up to its permission check: getRoleById, then the traversal
deleteRoleFetch ==
    /\ scan.op = "deleteRole" /\ scan.pc = "fetch"
    /\ LET targetRole == getRoleById(roles, scan.id)
           canDelete == scan.caller.isRootAdmin
                          \/ scan.id \in ManageableRoles(roles, scan.caller.roles)
       IN  scan' = IF targetRole = {}
                   THEN [scan EXCEPT !.pc = "done", !.status = 404]
                   ELSE IF ~canDelete
                   THEN [scan EXCEPT !.pc = "done", !.status = 403]
                   ELSE [scan EXCEPT !.pc = "children"]
    /\ UNCHANGED <<roles, users, cognito, nextId, last, trav>>

\* the safety check of deleteRole: queryRolesByParent(roleIdToDelete)
deleteRoleChildren ==
    /\ scan.op = "deleteRole" /\ scan.pc = "children"
    /\ scan' = IF HasChildren(queryRolesByParent(roles, scan.id))
               THEN [scan EXCEPT !.pc = "done", !.status = 409]
               ELSE [scan EXCEPT !.pc = "delete"]
    /\ UNCHANGED <<roles, users, cognito, nextId, last, trav>>

\* the DeleteCommand of deleteRole, sent without a condition
deleteRoleDelete ==
    /\ scan.op = "deleteRole" /\ scan.pc = "delete"
    /\ roles' = DeleteItem(roles, scan.id)
    /\ scan' = [scan EXCEPT !.pc = "done", !.status = 200]
    /\ UNCHANGED <<users, cognito, nextId, last, trav>>

\* one deleteRole invocation is under way on a table of one to MaxRoles
\* roles; the other invocations start later
InitRoleRace ==
    /\ \E n \in 1..MaxRoles : roles \in RoleTrees(n) /\ nextId = n + 1
    /\ users = SeededUsers
    /\ cognito = {}
    /\ last = NoRequest
    /\ trav = TravIdle
    /\ scan \in [op : {"deleteRole"}, pc : {"fetch"},
                 caller : {RootAdminCaller,
                           getCallerDetails(TRUE, "u1@x", FALSE, {ROOT_ROLE_ID})},
                 id : NewIds, status : {0}]

\* the requests that run beside the deleteRole
RoleRaceRequests ==
    [caller : {RootAdminCaller}, body : {ValidBody},
     parentId : {ROOT_ROLE_ID} \cup NewIds, fault : {"none"}]

RoleRaceNext ==
    \/ deleteRoleFetch
    \/ deleteRoleChildren
    \/ deleteRoleDelete
    \/ \E r \in RoleRaceRequests :
          createRole(r.caller, r.body.roleType, r.body.name, r.parentId,
                     r.fault)
    \/ \E r \in RoleRaceRequests, id \in NewIds :
          updateRole(r.caller, id, r.body.name, r.body.roleType, r.parentId,
                     r.fault)
    \/ deliver

SpecRoleRace == InitRoleRace /\ [][RoleRaceNext]_vars

-----------------------------------------------------------------------------
(* updateUser taken one store call at a time, beside deleteUser *)

\* what UpdateCommand "SET #nm = :n, #rl = :r" leaves under the key: the
\* item with the two attributes replaced, or, when the key has no item, a
\* new item that has the key and those two attributes only
UpdateItem(tbl, email, newName, newRoles) ==
    IF email \in DOMAIN tbl
    THEN [tbl EXCEPT ![email].name = newName, ![email].roles = newRoles]
    ELSE PutItem(tbl, email, [name |-> newName, roles |-> newRoles])

\* updateUser up to its permission check: getUserByEmail, the root admin
\* check, then the traversal; the request is well formed and authenticated
updateUserFetch ==
    /\ scan.op = "updateUser" /\ scan.pc = "fetch"
    /\ LET existingUser == getUserByEmail(users, scan.email)
           currentRoles == IF existingUser = {} THEN {}
                           ELSE rolesOf(users, scan.email)
           assignableRoles == ManageableRoles(roles, scan.caller.roles)
           canManageCurrentUser ==
               IF NoRoles(currentRoles) THEN FALSE
               ELSE EveryIn(currentRoles, assignableRoles)
           canAssignNewRoles == EveryIn(scan.newRoles, assignableRoles)
       IN  scan' =
             IF existingUser = {}
             THEN [scan EXCEPT !.pc = "done", !.status = 404]
             ELSE IF scan.email = ROOT_ADMIN_EMAIL
                     /\ currentRoles # scan.newRoles
             THEN [scan EXCEPT !.pc = "done", !.status = 403]
             ELSE IF ~scan.caller.isRootAdmin
                     /\ PermissionDenied(canManageCurrentUser,
                                         canAssignNewRoles)
             THEN [scan EXCEPT !.pc = "done", !.status = 403]
             ELSE [scan EXCEPT !.pc = "update"]
    /\ UNCHANGED <<roles, users, cognito, nextId, last, trav>>

\* the UpdateCommand of updateUser, sent without a condition
updateUserUpdate ==
    /\ scan.op = "updateUser" /\ scan.pc = "update"
    /\ users' = UpdateItem(users, scan.email, scan.newName, scan.newRoles)
    /\ scan' = [scan EXCEPT !.pc = "done", !.status = 200]
    /\ UNCHANGED <<roles, cognito, nextId, last, trav>>

\* the callers of the two invocations: the root admin and a non-root caller
\* holding the root role
RaceCallers ==
    {RootAdminCaller, getCallerDetails(TRUE, "u1@x", FALSE, {ROOT_ROLE_ID})}

\* users created through createUser by the root admin
CreatedUsers ==
    {PutItem(SeededUsers, "u1@x",
             [name |-> "n1", roles |-> rs, isRootAdmin |-> FALSE]) :
        rs \in RoleLists}

\* one updateUser invocation is under way; deleteUser invocations start later
InitUserRace ==
    /\ roles \in RoleTrees(MaxRoles)
    /\ users \in CreatedUsers
    /\ cognito \in {{}, {"u1@x"}}
    /\ nextId = MaxRoles + 1
    /\ last = NoRequest
    /\ trav = TravIdle
    /\ scan \in [op : {"updateUser"}, pc : {"fetch"}, caller : RaceCallers,
                 email : {"u1@x"}, newName : {"n2"},
                 newRoles : {{RoleIdSeq[1]}, {RoleIdSeq[MaxRoles]}},
                 status : {0}]

UserRaceNext ==
    \/ updateUserFetch
    \/ updateUserUpdate
    \/ \E c \in RaceCallers, f \in {"none", "cognito"} :
          deleteUser(c, "u1@x", f)
    \/ deliver

SpecUserRace == InitUserRace /\ [][UserRaceNext]_vars

-----------------------------------------------------------------------------
(* registerUser taken one store call at a time, beside deleteUser *)

\* registerUser up to the pre-approval check: the API key, the body, then
\* getUserByEmail
registerUserFetch ==
    /\ scan.op = "registerUser" /\ scan.pc = "fetch"
    /\ scan' = IF ~scan.keyMatches
               THEN [scan EXCEPT !.pc = "done", !.status = 401]
               ELSE IF getUserByEmail(users, scan.email) = {}
               THEN [scan EXCEPT !.pc = "done", !.status = 403]
               ELSE [scan EXCEPT !.pc = "get"]
    /\ UNCHANGED <<roles, users, cognito, nextId, last, trav>>

\* AdminGetUser: an account that is there ends the request with 200
registerUserGet ==
    /\ scan.op = "registerUser" /\ scan.pc = "get"
    /\ scan' = IF scan.email \in cognito
               THEN [scan EXCEPT !.pc = "done", !.status = 200]
               ELSE [scan EXCEPT !.pc = "create"]
    /\ UNCHANGED <<roles, users, cognito, nextId, last, trav>>

\* AdminCreateUser; outside any try, so a rejection ends the invocation (502)
registerUserCreate ==
    /\ scan.op = "registerUser" /\ scan.pc = "create"
    /\ IF scan.email \in cognito
       THEN /\ scan' = [scan EXCEPT !.pc = "done", !.status = 502]
            /\ UNCHANGED cognito
       ELSE /\ scan' = [scan EXCEPT !.pc = "password"]
            /\ cognito' = cognito \cup {scan.email}
    /\ UNCHANGED <<roles, users, nextId, last, trav>>

\* AdminSetUserPassword, outside any try as well
registerUserSetPassword ==
    /\ scan.op = "registerUser" /\ scan.pc = "password"
    /\ scan' = IF scan.fault = "password" \/ scan.email \notin cognito
               THEN [scan EXCEPT !.pc = "done", !.status = 502]
               ELSE [scan EXCEPT !.pc = "done", !.status = 201]
    /\ UNCHANGED <<roles, users, cognito, nextId, last, trav>>

\* one registerUser invocation is under way; deleteUser invocations start
\* later
InitRegisterRace ==
    /\ roles \in RoleTrees(MaxRoles)
    /\ users \in CreatedUsers \cup {SeededUsers}
    /\ cognito \in {{}, {"u1@x"}}
    /\ nextId = MaxRoles + 1
    /\ last = NoRequest
    /\ trav = TravIdle
    /\ scan \in [op : {"registerUser"}, pc : {"fetch"}, email : {"u1@x"},
                 keyMatches : BOOLEAN, fault : {"none", "password"},
                 status : {0}]

RegisterRaceNext ==
    \/ registerUserFetch
    \/ registerUserGet
    \/ registerUserCreate
    \/ registerUserSetPassword
    \/ \E c \in RaceCallers, f \in {"none", "cognito"} :
          deleteUser(c, "u1@x", f)
    \/ deliver

SpecRegisterRace == InitRegisterRace /\ [][RegisterRaceNext]_vars

-----------------------------------------------------------------------------
(* What the claims speak of *)

\* roles whose parentId is one of the ids in X
ChildrenOf(tbl, X) == {id \in DOMAIN tbl : tbl[id].parentId \in X}

\* strict descendants: the roles reached from S by one or more parent links
\* followed downward
StrictDescendants(tbl, S) ==
    LET n == Cardinality(DOMAIN tbl)
        F[k \in 0..n] ==
            IF k = 0 THEN ChildrenOf(tbl, S)
            ELSE F[k - 1] \cup ChildrenOf(tbl, F[k - 1])
    IN  F[n]

\* the traversal as the handlers' actions use it, the traversal taken one
\* lookup at a time and the strict descendants are the same set; the summary
\* returns that set without the seeds
TraversalAgrees ==
    trav.pc = "done" =>
        IF trav.mode = "recursive"
        THEN /\ trav.result = ManageableRoles(roles, trav.seeds)
             /\ trav.result = StrictDescendants(roles, trav.seeds)
        ELSE trav.result = StrictDescendants(roles, trav.seeds) \ trav.seeds

NonRootCall(op) ==
    /\ last.op = op
    /\ last.caller.isAuthenticated
    /\ ~last.caller.isRootAdmin

\* the parent the role had when updateRole started
CurrentParent == last.preRoles[last.id].parentId

-----------------------------------------------------------------------------
(* C1 *)

\* C1: a createRole request of a non-root caller under parent P succeeds only
\* if P is one of the roles the caller holds and P is not TOP_LEVEL, and a
\* caller that holds P is not turned away as unauthorized.
C1_CreateRoleNeedsHeldParent ==
    /\ (/\ last.op \in {"createRole", "createRolePlain"}
        /\ ~last.caller.isRootAdmin
        /\ last.status = 201)
          => /\ last.parentId # TOP_LEVEL_PARENT_ID
             /\ last.parentId \in last.caller.roles
    /\ (NonRootCall("createRole") /\ last.parentId \in last.caller.roles)
          => last.status # 403

-----------------------------------------------------------------------------
(* C2 *)

\* C2: deleteRole(R) of a non-root caller gets past the permission check only
\* if R is a strict descendant of a role the caller holds, and does get past
\* it when R is one; a caller holding only B is denied deleting B itself
\* unless B lies below B.
C2_DeleteRoleOnlyManageable ==
    /\ (NonRootCall("deleteRole") /\ last.status \in {200, 409})
          => last.id \in StrictDescendants(last.preRoles, last.caller.roles)
    /\ (/\ NonRootCall("deleteRole")
        /\ last.id \in DOMAIN last.preRoles
        /\ last.id # ROOT_ROLE_ID
        /\ last.id \in StrictDescendants(last.preRoles, last.caller.roles))
          => last.status \in {200, 409, 500}
    /\ (/\ NonRootCall("deleteRole")
        /\ last.caller.roles = {last.id}
        /\ last.id \notin StrictDescendants(last.preRoles, {last.id}))
          => last.status \notin {200, 409}

\* the tree SYSTEM_ROOT -> r1 -> r2, a caller holding {r1} has deleted r2
C2_Witness ==
    /\ NonRootCall("deleteRole")
    /\ last.status = 200
    /\ last.caller.roles = {"r1"}
    /\ last.id = "r2"
    /\ DOMAIN last.preRoles = {ROOT_ROLE_ID, "r1", "r2"}
    /\ last.preRoles["r1"].parentId = ROOT_ROLE_ID
    /\ last.preRoles["r2"].parentId = "r1"
    /\ "r2" \notin DOMAIN roles

-----------------------------------------------------------------------------
(* C3 *)

\* C3 as stated: updateRole of a non-root caller succeeds only if neither the
\* current nor the new parent is TOP_LEVEL and both are strict descendants of
\* the caller's roles.
C3_UpdateRoleParentsStrictlyBelow ==
    (NonRootCall("updateRole") /\ last.status = 200)
      => /\ CurrentParent # TOP_LEVEL_PARENT_ID
         /\ last.parentId # TOP_LEVEL_PARENT_ID
         /\ CurrentParent
              \in StrictDescendants(last.preRoles, last.caller.roles)
         /\ last.parentId
              \in StrictDescendants(last.preRoles, last.caller.roles)

\* C3 amended: updateRole of a non-root caller succeeds only if neither the
\* current nor the new parent is TOP_LEVEL and each of them is a role the
\* caller holds or a strict descendant of one.
C3_UpdateRoleParentsHeldOrBelow ==
    (NonRootCall("updateRole") /\ last.status = 200)
      => /\ CurrentParent # TOP_LEVEL_PARENT_ID
         /\ last.parentId # TOP_LEVEL_PARENT_ID
         /\ CurrentParent \in last.caller.roles
              \cup StrictDescendants(last.preRoles, last.caller.roles)
         /\ last.parentId \in last.caller.roles
              \cup StrictDescendants(last.preRoles, last.caller.roles)

\* a non-root caller has moved a role from under a parent it only holds to
\* under a parent below it
C3_Witness ==
    /\ NonRootCall("updateRole")
    /\ last.status = 200
    /\ CurrentParent \in last.caller.roles
    /\ CurrentParent
         \notin StrictDescendants(last.preRoles, last.caller.roles)
    /\ last.parentId \in StrictDescendants(last.preRoles, last.caller.roles)
    /\ roles[last.id].parentId = last.parentId

-----------------------------------------------------------------------------
(* C4 *)

\* the strict descendants of the roles the caller of the last request holds
CallerManageable == StrictDescendants(last.preRoles, last.caller.roles)

-----------------------------------------------------------------------------
(* C5 *)

\* the roles the target of the last user request had when it started
StoredRolesBefore == last.preUsers[last.email].roles

\* C5: updateUser of a non-root caller on a stored user is denied, and the
\* users table (name included) is left as it was, whenever one of the user's
\* stored roles or one of the requested roles is not a strict descendant of a
\* role the caller holds (when a children lookup of the traversal throws, the
\* answer is 500 instead).
C5_UpdateUserDeniedAsAWhole ==
    (/\ NonRootCall("updateUser")
     /\ last.email \in DOMAIN last.preUsers
     /\ \/ ~(StoredRolesBefore \subseteq CallerManageable)
        \/ ~(last.reqRoles \subseteq CallerManageable))
      => /\ last.status \in {403, 500}
         /\ last.failing = {} => last.status = 403
         /\ users = last.preUsers

\* a non-root caller that manages every stored role of the user has asked for
\* one role it manages and one it does not; the name is unchanged
C5_Witness ==
    /\ NonRootCall("updateUser")
    /\ last.email \in DOMAIN last.preUsers
    /\ StoredRolesBefore # {}
    /\ StoredRolesBefore \subseteq CallerManageable
    /\ last.reqRoles \cap CallerManageable # {}
    /\ last.reqRoles \ CallerManageable # {}
    /\ last.status = 403
    /\ users[last.email].name = last.preUsers[last.email].name
    /\ users[last.email].name # "n2"

-----------------------------------------------------------------------------
(* C6 *)

\* the last request is a deleteUser on a stored user other than the root
\* admin
DeleteOfStoredUser ==
    /\ last.op = "deleteUser"
    /\ last.email \in DOMAIN last.preUsers
    /\ last.email # ROOT_ADMIN_EMAIL

\* C6: deleteUser of a stored user by a non-root caller removes the record
\* only if the user's stored roles are non-empty and all strict descendants
\* of the caller's roles, is not answered 403 when they are, and is refused
\* with nothing deleted when they are not; a record with no roles is removed
\* only for a root-admin caller.
C6_DeleteUserAuthorization ==
    /\ (DeleteOfStoredUser /\ NonRootCall("deleteUser"))
          => IF StoredRolesBefore # {}
                /\ StoredRolesBefore \subseteq CallerManageable
             THEN last.status # 403
             ELSE /\ last.status \in {400, 403, 500}
                  /\ users = last.preUsers
                  /\ cognito = last.preCognito
    /\ (DeleteOfStoredUser /\ StoredRolesBefore = {}
        /\ users # last.preUsers)
          => last.caller.isRootAdmin

\* a non-root caller has deleted a user all of whose roles lie below its own
C6_Witness ==
    /\ DeleteOfStoredUser
    /\ NonRootCall("deleteUser")
    /\ StoredRolesBefore # {}
    /\ last.caller.roles # {ROOT_ROLE_ID}
    /\ last.status = 200
    /\ last.email \notin DOMAIN users

-----------------------------------------------------------------------------
(* C7 *)

\* C7: when the traversal has finished, in the handlers' form or in the
\* summary's, the set it returns holds none of the seed ids.
C7_NoSeedInManageableSet ==
    trav.pc = "done" => trav.result \cap trav.seeds = {}

-----------------------------------------------------------------------------
(* C8 *)

\* C8: on every roles table, self-parented and cyclic ones included, the
\* traversal looks the children of each role id up at most once, and it
\* finishes.
C8_TraversalTerminates ==
    /\ [](\A r \in RoleIds : trav.lookups[r] <= 1)
    /\ <>(trav.pc = "done")

\* the traversal has finished on a table where r1 is its own parent or r1
\* and r2 are each other's parent, having started from r1
C8_Witness ==
    /\ trav.pc = "done"
    /\ "r1" \in trav.seeds
    /\ "r1" \in DOMAIN roles
    /\ \/ roles["r1"].parentId = "r1"
       \/ /\ "r2" \in DOMAIN roles
          /\ roles["r1"].parentId = "r2"
          /\ roles["r2"].parentId = "r1"
    /\ trav.lookups["r1"] = 1

-----------------------------------------------------------------------------
(* C9 *)

\* the children of the role a deleteRole request named, when it started
ChildrenBefore == queryRolesByParent(last.preRoles, last.id)

\* C9 as stated: deleteRole of a role that has children answers 409 with the
\* child ids and deletes nothing, whoever calls.
C9_ChildrenAlwaysConflict ==
    (last.op = "deleteRole" /\ ChildrenBefore # {})
      => /\ last.status = 409
         /\ last.childRoleIds = ChildrenBefore
         /\ roles = last.preRoles

\* C9 amended: deleteRole of a role that has children deletes nothing, whoever
\* calls; it answers 409 with the child ids whenever the request gets as far
\* as the children check: the id is not the root role's, the caller is
\* authenticated, the role exists, the caller is root admin or the role is
\* manageable, and the store answers.
C9_ChildrenBlockDelete ==
    (last.op = "deleteRole" /\ ChildrenBefore # {})
      => /\ last.status # 200
         /\ roles = last.preRoles
         /\ (/\ last.id # ROOT_ROLE_ID
             /\ last.caller.isAuthenticated
             /\ last.id \in DOMAIN last.preRoles
             /\ \/ last.caller.isRootAdmin
                \/ last.id \in StrictDescendants(last.preRoles,
                                                 last.caller.roles)
             /\ last.status # 500)
               => /\ last.status = 409
                  /\ last.childRoleIds = ChildrenBefore

\* root admin has asked to delete a role that has a child
C9_Witness ==
    /\ last.op = "deleteRole"
    /\ last.caller.isRootAdmin
    /\ last.id # ROOT_ROLE_ID
    /\ ChildrenBefore # {}
    /\ last.status = 409
    /\ last.id \in DOMAIN roles

-----------------------------------------------------------------------------
(* C10 *)

\* C10: the root role record is always stored as seeded, and every updateRole
\* or deleteRole that names the root role is answered 403.
C10_RootRoleImmutable ==
    /\ ROOT_ROLE_ID \in DOMAIN roles
    /\ roles[ROOT_ROLE_ID] = rootRole
    /\ (last.op \in {"updateRole", "deleteRole"} /\ last.id = ROOT_ROLE_ID)
          => last.status = 403

\* root admin has asked to update the root role while other roles exist
C10_Witness ==
    /\ last.op = "updateRole"
    /\ last.caller.isRootAdmin
    /\ last.id = ROOT_ROLE_ID
    /\ last.status = 403
    /\ DOMAIN roles # {ROOT_ROLE_ID}

-----------------------------------------------------------------------------
(* C11 *)

\* C11: whatever createUser, updateUser and deleteUser calls have been made,
\* the record of the root admin user is stored, is still marked isRootAdmin
\* and still has the roles it was seeded with; an updateUser by root admin
\* that keeps those roles succeeds unless the store fails.
C11_RootAdminUserKept ==
    /\ ROOT_ADMIN_EMAIL \in DOMAIN users
    /\ users[ROOT_ADMIN_EMAIL].isRootAdmin
    /\ users[ROOT_ADMIN_EMAIL].roles = rootUser.roles
    /\ (/\ last.op = "updateUser"
        /\ last.caller.isRootAdmin
        /\ last.email = ROOT_ADMIN_EMAIL
        /\ last.reqRoles = rootUser.roles)
          => last.status \in {200, 400, 500}

-----------------------------------------------------------------------------
(* C12 *)

\* C12: in every state the role handlers reach from the seeded store, no role
\* is reached again by following parentId from it.
C12_RolesFormForest ==
    \A r \in DOMAIN roles : r \notin StrictDescendants(roles, {r})

-----------------------------------------------------------------------------
(* C13 *)

\* C13: no page listUsers has returned holds the record of the caller.
C13_ListExcludesCaller ==
    scan.op = "listUsers" =>
        \A i \in DOMAIN scan.pages : \A j \in DOMAIN scan.pages[i] :
            scan.pages[i][j] # scan.caller.email

-----------------------------------------------------------------------------
(* C14 *)

\* the users the caller of the read request may see: all of them for root
\* admin, else those holding one of the caller's roles or a role below them
EligibleUsers ==
    IF scan.caller.isRootAdmin THEN DOMAIN users
    ELSE {e \in DOMAIN users :
            users[e].roles \cap (scan.caller.roles
                \cup StrictDescendants(roles, scan.caller.roles)) # {}}

RECURSIVE TotalLen(_)
TotalLen(pages) ==
    IF pages = <<>> THEN 0 ELSE Len(Head(pages)) + TotalLen(Tail(pages))

\* C14: once the client of the caller-stripping listUsers has followed the
\* cursors to the end, the pages together hold every eligible user other than
\* the caller, none of them twice, and no page is longer than the limit.
C14_PagingReturnsEachUserOnce ==
    (/\ scan.op = "listUsers" /\ scan.version = "filtering"
     /\ scan.pc = "done" /\ scan.status = 200)
      => /\ UNION {{scan.pages[i][j] : j \in DOMAIN scan.pages[i]} :
                     i \in DOMAIN scan.pages}
              = EligibleUsers \ {scan.caller.email}
         /\ TotalLen(scan.pages)
              = Cardinality(EligibleUsers \ {scan.caller.email})
         /\ \A i \in DOMAIN scan.pages : Len(scan.pages[i]) <= scan.limit

-----------------------------------------------------------------------------
(* C15 *)

\* summary has answered a caller that is authenticated and not root admin
NonRootSummaryDone ==
    /\ scan.op = "summary" /\ scan.pc = "done"
    /\ scan.caller.isAuthenticated
    /\ ~scan.caller.isRootAdmin

\* the strict descendants of the summary caller's roles, those roles excluded
SummaryDescendants ==
    StrictDescendants(roles, scan.caller.roles) \ scan.caller.roles

\* C15: for a non-root caller summary returns as roleCount the number of
\* strict descendants of the caller's roles, held roles excluded, and as
\* userCount the number of stored users holding at least one of the caller's
\* roles or of those descendants.
C15_SummaryCountsForNonRoot ==
    NonRootSummaryDone
      => /\ scan.status = 200
         /\ scan.roleCount = Cardinality(SummaryDescendants)
         /\ scan.userCount = Cardinality(
              {e \in DOMAIN users :
                 users[e].roles
                   \cap (scan.caller.roles \cup SummaryDescendants) # {}})

\* a caller holding r1 has got its summary: it has roles below r1, and some
\* but not all users hold a counted role
C15_Witness ==
    /\ NonRootSummaryDone
    /\ scan.caller.roles = {"r1"}
    /\ scan.roleCount >= 1
    /\ scan.userCount >= 2
    /\ scan.userCount < Cardinality(DOMAIN users)
    /\ scan.scans >= 2

-----------------------------------------------------------------------------
(* C16 *)

\* C16: summary for a non-root caller without roles returns roleCount 0 and
\* userCount 0, and has looked up no children and scanned no table.
C16_SummaryWithoutRoles ==
    (NonRootSummaryDone /\ scan.caller.roles = {})
      => /\ scan.roleCount = 0
         /\ scan.userCount = 0
         /\ scan.scans = 0
         /\ \A r \in RoleIds : trav.lookups[r] = 0

\* the summary of a caller without roles has been answered
C16_Witness ==
    /\ NonRootSummaryDone
    /\ scan.caller.roles = {}
    /\ scan.status = 200
    /\ trav.pc = "done"

-----------------------------------------------------------------------------
(* C17 *)

\* C17: for a root-admin caller summary returns the number of stored roles
\* and the number of stored users, however the store cuts the count scans
\* into pages.
C17_SummaryCountsForRoot ==
    (scan.op = "summary" /\ scan.pc = "done" /\ scan.caller.isRootAdmin)
      => /\ scan.status = 200
         /\ scan.roleCount = Cardinality(DOMAIN roles)
         /\ scan.userCount = Cardinality(DOMAIN users)

\* root admin has got its summary after more scan pages than there are
\* tables, over more than one role
C17_Witness ==
    /\ scan.op = "summary" /\ scan.pc = "done"
    /\ scan.caller.isRootAdmin
    /\ scan.scans > 3
    /\ scan.roleCount > 1
    /\ scan.userCount = Cardinality(DOMAIN users)

-----------------------------------------------------------------------------
(* C18 *)

\* C18: deleteUser asks the identity store to delete the account only after
\* the directory record was deleted or found absent; when the directory
\* delete fails it answers 500, the identity store is not asked, and both
\* stores are as they were.
C18_IdentityStepAfterDirectoryStep ==
    last.op = "deleteUser"
      => /\ last.steps.identity # "none"
              => last.steps.directory \in {"deleted", "absent"}
         /\ last.steps.directory = "failed"
              => /\ last.status = 500
                 /\ last.steps.identity = "none"
                 /\ users = last.preUsers
                 /\ cognito = last.preCognito

\* the directory delete of a registered user has failed
C18_Witness ==
    /\ last.op = "deleteUser"
    /\ last.steps.directory = "failed"
    /\ last.email \in cognito
    /\ last.email \in DOMAIN users

-----------------------------------------------------------------------------
(* C19 *)

\* C19: once the directory delete of deleteUser has gone through, the answer
\* is 200 when the identity store deleted the account or did not know it and
\* 207 when it failed otherwise, never an error; the directory record is
\* gone either way.
C19_NoFailureAfterDirectoryStep ==
    (last.op = "deleteUser" /\ last.steps.directory = "deleted")
      => /\ last.email \notin DOMAIN users
         /\ last.steps.identity \in {"deleted", "notfound", "failed"}
         /\ last.steps.identity \in {"deleted", "notfound"}
              => last.status = 200
         /\ last.steps.identity = "failed" => last.status = 207

\* the record of a user unknown to the identity store has been deleted
C19_Witness ==
    /\ last.op = "deleteUser"
    /\ last.steps.directory = "deleted"
    /\ last.steps.identity = "notfound"
    /\ last.status = 200
    /\ last.email \in DOMAIN last.preUsers
    /\ last.email \notin DOMAIN users

-----------------------------------------------------------------------------
(* C20 *)

\* the answers that report an error
ErrorStatus == {400, 401, 403, 404, 409, 500, 502}

-----------------------------------------------------------------------------
(* C21 *)

\* the parent named by the last updateRole is not TOP_LEVEL and was not in
\* the roles table when the request came in
NewParentMissing ==
    /\ last.parentId # TOP_LEVEL_PARENT_ID
    /\ last.parentId \notin DOMAIN last.preRoles

\* no updateRole has stored a role that is its own parent or whose parent was
\* not in the table
UpdateRoleStoresSoundParent ==
    (last.op = "updateRole" /\ last.status = 200)
      => /\ roles[last.id].parentId # last.id
         /\ roles[last.id].parentId = TOP_LEVEL_PARENT_ID
              \/ roles[last.id].parentId \in DOMAIN last.preRoles

\* C21 as stated: every updateRole naming the role itself as parent is
\* answered 400, every updateRole naming a missing parent is answered 404,
\* and no updateRole stores a self parent or a missing parent.
C21_SelfParent400MissingParent404 ==
    (last.op = "updateRole" /\ last.id # Absent)
      => /\ last.parentId = last.id => last.status = 400
         /\ NewParentMissing => last.status = 404
         /\ UpdateRoleStoresSoundParent

\* C21 amended: for an authenticated caller and a role other than the root
\* role, updateRole naming the role itself as parent is answered 400;
\* naming a missing parent for a stored role is answered 400 as well (500
\* when the role cannot be read), never 404 and never 200; no updateRole
\* stores a self parent or a missing parent.
C21_SelfOrMissingParentRefused ==
    (last.op = "updateRole" /\ last.id # Absent
       /\ last.caller.isAuthenticated /\ last.id # ROOT_ROLE_ID)
      => /\ last.parentId = last.id => last.status = 400
         /\ (NewParentMissing /\ last.id \in DOMAIN last.preRoles)
              => last.status \in {400, 500}
         /\ UpdateRoleStoresSoundParent
         /\ (last.parentId = last.id \/ NewParentMissing)
              => roles = last.preRoles

\* the root admin has asked to move a stored role under a role that was
\* deleted, and was answered 400
C21_Witness ==
    /\ last.op = "updateRole"
    /\ last.caller.isRootAdmin
    /\ last.id \in DOMAIN last.preRoles
    /\ last.id # ROOT_ROLE_ID
    /\ last.parentId \in Issued
    /\ NewParentMissing
    /\ last.status = 400
    /\ roles = last.preRoles

-----------------------------------------------------------------------------
(* C22 *)

\* the last request was a deleteUser by an authenticated caller for an email
\* other than the root admin's that had no record in the users table
DeleteWithoutRecord ==
    /\ last.op = "deleteUser"
    /\ last.caller.isAuthenticated
    /\ last.email \notin {Absent, ROOT_ADMIN_EMAIL}
    /\ last.email \notin DOMAIN last.preUsers

\* C22: deleteUser for an email without a directory record is never answered
\* 401 or 403 for an authenticated caller, whatever roles the caller holds;
\* unless the claims or the read of the record fail (400, 500, nothing
\* asked of either store), it goes to the identity store and deletes the
\* account there.
C22_AbsentRecordSkipsAuthorization ==
    DeleteWithoutRecord
      => /\ last.status \in {200, 207, 400, 500}
         /\ last.status \in {400, 500} <=> last.steps = NoSteps
         /\ last.status \in {200, 207}
              => /\ last.steps.directory = "absent"
                 /\ last.steps.identity \in {"deleted", "notfound", "failed"}
         /\ last.email \in last.preCognito /\ last.status = 200
              => /\ last.steps.identity = "deleted"
                 /\ cognito = last.preCognito \ {last.email}
         /\ users = last.preUsers

\* a non-root caller holding no roles has deleted the identity-store account
\* of an email that has no directory record
C22_Witness ==
    /\ DeleteWithoutRecord
    /\ ~last.caller.isRootAdmin
    /\ last.caller.roles = {}
    /\ last.email \in last.preCognito
    /\ last.status = 200
    /\ last.email \notin cognito

-----------------------------------------------------------------------------
(* C23 *)

\* the operations that change a table after a traversal
Mutations == {"deleteRole", "updateRole", "createUser", "updateUser", "deleteUser"}

\* the last request was a mutation by a non-root caller whose traversal, had
\* it run to its end, queried a role whose children query throws
LookupHit ==
    /\ last.op \in Mutations
    /\ last.caller.isAuthenticated
    /\ ~last.caller.isRootAdmin
    /\ last.failing
         \cap (last.caller.roles
                 \cup ManageableRoles(last.preRoles, last.caller.roles)) # {}
    /\ last.op = "deleteUser" => last.email \in DOMAIN last.preUsers

\* the 403 answers that are given before the traversal starts
RefusedBeforeTraversal ==
    \/ last.op \in {"deleteRole", "updateRole"} /\ last.id = ROOT_ROLE_ID
    \/ last.op \in {"updateUser", "deleteUser"}
         /\ last.email = ROOT_ADMIN_EMAIL
    \/ last.op = "deleteUser" /\ last.email \in DOMAIN last.preUsers
         /\ last.preUsers[last.email].roles = {}

\* C23: a mutation whose traversal meets a failing children lookup is
\* answered 500 unless an earlier check has answered already; it is never
\* granted, never denied on the strength of the traversal and never answered
\* 409, and the tables and the identity store are as they were.
C23_FailedLookupIsStorageError ==
    LookupHit
      => /\ last.status \in {400, 403, 404, 500}
         /\ last.status = 403 => RefusedBeforeTraversal
         /\ roles = last.preRoles
         /\ users = last.preUsers
         /\ cognito = last.preCognito

\* deleteRole of a role below the caller's, which would have been granted,
\* was answered 500 because the children lookup of another role threw
C23_Witness ==
    /\ LookupHit
    /\ last.op = "deleteRole"
    /\ last.id \in ManageableRoles(last.preRoles, last.caller.roles)
    /\ last.id \notin last.failing
    /\ queryRolesByParent(last.preRoles, last.id) = {}
    /\ last.status = 500
    /\ last.id \in DOMAIN roles

-----------------------------------------------------------------------------
(* C24 *)

\* C24: a createUser, updateUser or deleteUser of a non-root caller that names
\* a stored user one of whose roles is not a strict descendant of a role the
\* caller holds leaves the users table as it was.
C24_NonRootLeavesUnmanagedUsers ==
    (/\ last.op \in {"createUser", "updateUser", "deleteUser"}
     /\ last.caller.isAuthenticated
     /\ ~last.caller.isRootAdmin
     /\ last.email \in DOMAIN last.preUsers
     /\ ~(StoredRolesBefore \subseteq CallerManageable))
      => users = last.preUsers

-----------------------------------------------------------------------------
(* C25 *)

\* the roles the last request created, changed or deleted
ChangedRoles ==
    {r \in DOMAIN roles \cup DOMAIN last.preRoles :
        \/ r \notin DOMAIN last.preRoles
        \/ r \notin DOMAIN roles
        \/ roles[r] # last.preRoles[r]}

\* C25: every role a role request of a non-root caller has created, changed
\* or deleted is a strict descendant of a role the caller holds, in the table
\* as it was if the role was there and in the table as it is if the role is
\* there, and no role the caller holds has been touched; the caller holds
\* stored roles only.
C25_NonRootChangesOnlyBelowHeld ==
    (/\ last.op \in {"createRole", "createRolePlain", "updateRole", "deleteRole"}
     /\ ~last.caller.isRootAdmin
     /\ last.caller.roles \subseteq DOMAIN last.preRoles)
      => \A r \in ChangedRoles :
            /\ r \in DOMAIN last.preRoles
                 => r \in StrictDescendants(last.preRoles, last.caller.roles)
            /\ r \in DOMAIN roles
                 => r \in StrictDescendants(roles, last.caller.roles)
            /\ r \notin last.caller.roles

-----------------------------------------------------------------------------
(* C26 *)

\* C26: a createRole that has stored a role under a parent other than
\* TOP_LEVEL found that parent in the roles table, whoever the caller.
C26_CreateRoleParentStored ==
    (/\ last.op \in {"createRole", "createRolePlain"}
     /\ last.status = 201
     /\ last.parentId # TOP_LEVEL_PARENT_ID)
      => last.parentId \in DOMAIN last.preRoles

-----------------------------------------------------------------------------
(* C27 *)

\* C27: no step removes a role from the roles table while a stored role
\* names it as its parent.
C27_RemovedRoleHasNoChildren ==
    [][\A r \in DOMAIN roles :
          r \notin DOMAIN roles' => queryRolesByParent(roles, r) = {}]_vars

-----------------------------------------------------------------------------
(* C28 *)

\* C28: when an updateUser has finished and the deleteUser answered last has
\* removed the record of the same email, the users table has no record for
\* it; and every stored record has a name, roles and isRootAdmin.
C28_NoRecordAfterDelete ==
    /\ (/\ scan.op = "updateUser" /\ scan.pc = "done"
        /\ last.op = "deleteUser" /\ last.email = scan.email
        /\ last.steps.directory = "deleted")
          => scan.email \notin DOMAIN users
    /\ \A e \in DOMAIN users :
          DOMAIN users[e] = {"name", "roles", "isRootAdmin"}

-----------------------------------------------------------------------------
(* C29 *)

\* C29: when a registerUser has finished and the deleteUser answered last
\* reported the same email fully deleted (200), the identity store has no
\* account for an email whose directory record is absent.
C29_NoAccountWithoutRecord ==
    (/\ scan.op = "registerUser" /\ scan.pc = "done"
     /\ last.op = "deleteUser" /\ last.email = scan.email
     /\ last.status = 200)
      => ~(scan.email \in cognito /\ scan.email \notin DOMAIN users)

-----------------------------------------------------------------------------
(* C30 *)

\* C30: the set getDescendants of the summary returns for the roles a caller
\* holds is the set the mutation handlers compute as manageable for the same
\* roles on the same roles table.
C30_SummarySetIsManageableSet ==
    (trav.pc = "done" /\ trav.mode = "iterative")
      => trav.result = ManageableRoles(roles, trav.seeds)

=============================================================================
